---- MODULE Spec2Model ----
(***************************************************************************)
(* A model of mutpy/controller.py: the MutationScore aggregator, the       *)
(* MutationController run loop (baseline tests, targets, mutants,          *)
(* classification, fatal conditions, interrupts) and the higher-order      *)
(* mutation (HOM) combination strategies.                                  *)
(*                                                                         *)
(* Five specifications share the module:                                   *)
(*   Spec      the controller's run() as a state machine, with the default *)
(*             timeout factor and one fixed set of test modules;           *)
(*   SpecDeadline                                                          *)
(*             runs without coverage, over every timeout factor and every  *)
(*             baseline duration of the test modules;                      *)
(*   SpecCoverage                                                          *)
(*             runs in coverage mode, over every coverage of the test      *)
(*             cases and every set of mutated nodes;                       *)
(*   SpecHOM   one generation pass of a HOM strategy, one step per         *)
(*             resumption of the generator (one group yielded);            *)
(*   FairSpecBetweenOperators                                              *)
(*             a Between-Operators pass whose consumer keeps resuming it.  *)
(*                                                                         *)
(* The collaborators of mutpy.utils, mutpy.views and mutpy.coverage are    *)
(* the environment: loaders yield modules or raise ModulesLoaderException, *)
(* utils.create_module returns or raises, the runner returns a result or   *)
(* None, and a KeyboardInterrupt may arrive in any blocking call.          *)
(* utils.TimeRegister and utils.StdoutManager are taken to pass results    *)
(* and exceptions through unchanged. Mutation objects are compared by      *)
(* identity. The float division of MutationScore.count is kept exact.      *)
(***************************************************************************)
EXTENDS Integers, Sequences, FiniteSets, TLC

\* ------------------------------------------------------------------ bounds
\* Baseline test modules test_loader.load() may yield in one run.
MaxTests == 2
\* Target modules target_loader.load() may yield in one run.
MaxTargets == 2
\* Mutants the generator may yield in one run, over all targets.
MaxMutants == 3

VARIABLES
    \* ---- MutationController ----
    pc,               \* the call run() is in
    exit_status,      \* the argument of sys.exit (0: sys.exit was not called)
    raised,           \* the exception that left run() uncaught ("none")
    score,            \* the MutationScore object's fields
    score_created,    \* whether the attribute self.score has been assigned
    reported,         \* the counters notify_end was given (as a sequence of at most one)
    views,            \* the notifications sent to the views, in order
    mutation_number,  \* self.mutation_number (0 stands for None)
    mutate_covered,   \* self.mutate_covered
    tests_loaded,     \* len(test_modules) in load_and_check_tests
    targets_loaded,   \* targets target_loader.load() has yielded
    hist,             \* one record per mutant the generator yielded
    fault,            \* the fatal exception the environment raised, and where
    interrupt         \* the first KeyboardInterrupt delivered, and the state it found

ctlVars == <<pc, exit_status, raised, score, score_created, reported, views,
             mutation_number, mutate_covered, tests_loaded, targets_loaded,
             hist, fault, interrupt>>

VARIABLES
    \* ---- the configuration and the programs under test ----
    timeout_factor,   \* self.timeout_factor
    durations,        \* durations[i]: what run_test measures for test module i (seconds)
    covered,          \* covered[t]: the markers test case t touches in the coverage run
    markers,          \* markers[i]: {mutation.node.marker} of the i-th mutant yielded
    init_modules      \* self.init_modules, stored by __init__

envVars == <<timeout_factor, durations, covered, markers, init_modules>>

VARIABLES
    \* ---- the objects run_tests_with_mutant works on ----
    total_duration,   \* total_duration of load_and_check_tests, handed to mutate_module
    sys_modules,      \* the keys of sys.modules
    coverage_result,  \* mutate_module's coverage_result (created = FALSE stands for None)
    suite,            \* the last suite create_test_suite built
    runners,          \* the runner objects created, with the calls made on each
    last_result,      \* the value get_result returned last
    tests_run         \* per yielded mutant, the tests_run arguments the views were given

runVars == <<total_duration, sys_modules, coverage_result, suite, runners, last_result, tests_run>>

VARIABLES
    \* ---- one generation pass of a HOM strategy ----
    hom_pc,           \* "idle", "created" (generate() called, body not started), "running", "done"
    strategy,         \* the strategy class's name
    order,            \* self.order
    mutation,         \* the Mutation objects: mutation[i] = [node, operator]
    lists,            \* the list objects of the pass; lists[1] is the caller's list
    mutations,        \* the list object generate's name `mutations` is bound to
    not_used,         \* BETWEEN_OPERATORS: the list object bound to not_used (0: none)
    usage,            \* BETWEEN_OPERATORS: usage[i], the usage counter of mutation i
    groups,           \* the groups yielded so far, in order
    shuffler_calls,   \* RANDOM: how often self.shuffler was called
    shuffled          \* RANDOM: the list as the shuffler left it

homVars == <<hom_pc, strategy, order, mutation, lists, mutations, not_used, usage, groups,
             shuffler_calls, shuffled>>

vars == <<ctlVars, envVars, runVars, homVars>>

\* ------------------------------------------------------------ MutationScore

MutationScore ==
    [killed_mutants |-> 0, timeout_mutants |-> 0, incompetent_mutants |-> 0,
     survived_mutants |-> 0, covered_nodes |-> 0, all_nodes |-> 0]

inc_killed(s) == [s EXCEPT !.killed_mutants = @ + 1]

inc_timeout(s) == [s EXCEPT !.timeout_mutants = @ + 1]

inc_incompetent(s) == [s EXCEPT !.incompetent_mutants = @ + 1]

inc_survived(s) == [s EXCEPT !.survived_mutants = @ + 1]

update_coverage(s, covered_nodes, all_nodes) ==
    [s EXCEPT !.covered_nodes = @ + covered_nodes, !.all_nodes = @ + all_nodes]

\* all_mutants without the incompetent mutants.
all_mutants_competent(s) ==
    s.killed_mutants + s.timeout_mutants + s.survived_mutants

all_mutants(s) ==
    s.killed_mutants + s.timeout_mutants + s.incompetent_mutants + s.survived_mutants

\* count() with the incompetent mutants left in the denominator.
count_over_all(s) ==
    LET bottom == all_mutants(s)
    IN  IF bottom # 0
        THEN <<(s.killed_mutants + s.timeout_mutants) * 100, bottom>>
        ELSE <<0, 1>>

\* count() divides in floating point; the quotient is kept exact here, as the
\* fraction <<numerator, denominator>>. The integer 0 of the else branch is <<0, 1>>.
count(s) ==
    LET bottom == all_mutants(s) - s.incompetent_mutants
    IN  IF bottom # 0
        THEN <<(s.killed_mutants + s.timeout_mutants) * 100, bottom>>
        ELSE <<0, 1>>

\* ------------------------------------------------- results and notifications

\* What test_runner.get_result(live_time) returns: None (returned = FALSE) when
\* the deadline elapsed, else a result object with its two flags.
NoneResult == [returned |-> FALSE, is_incompetent |-> FALSE, is_survived |-> FALSE]

Results ==
    {NoneResult} \cup
    {[returned |-> TRUE, is_incompetent |-> i, is_survived |-> s] : i, s \in BOOLEAN}

\* The part of the controller an update operation acts on: the score, the
\* notifications sent (ctx.views), those sent for the current mutant (ctx.notes)
\* and the update operations called for it (ctx.calls).
Ctx(s, v) == [score |-> s, views |-> v, notes |-> <<>>, calls |-> <<>>]

notify(ctx, name) ==
    [ctx EXCEPT !.views = Append(@, name), !.notes = Append(@, name)]

update_timeout_mutant(ctx) ==
    LET c == notify([ctx EXCEPT !.calls = Append(@, "update_timeout_mutant")], "timeout")
    IN  [c EXCEPT !.score = inc_timeout(@)]

update_incompetent_mutant(ctx) ==
    LET c == notify([ctx EXCEPT !.calls = Append(@, "update_incompetent_mutant")], "incompetent")
    IN  [c EXCEPT !.score = inc_incompetent(@)]

\* update_survived_mutant without its inc_survived.
update_survived_mutant_uncounted(ctx) ==
    notify([ctx EXCEPT !.calls = Append(@, "update_survived_mutant")], "survived")

update_survived_mutant(ctx) ==
    LET c == notify([ctx EXCEPT !.calls = Append(@, "update_survived_mutant")], "survived")
    IN  [c EXCEPT !.score = inc_survived(@)]

update_killed_mutant(ctx) ==
    LET c == notify([ctx EXCEPT !.calls = Append(@, "update_killed_mutant")], "killed")
    IN  [c EXCEPT !.score = inc_killed(@)]

\* update_score_and_notify_views testing is_survived before is_incompetent.
update_score_survived_first(result, ctx) ==
    IF ~result.returned THEN update_timeout_mutant(ctx)
    ELSE IF result.is_survived THEN update_survived_mutant(ctx)
    ELSE IF result.is_incompetent THEN update_incompetent_mutant(ctx)
    ELSE update_killed_mutant(ctx)

update_score_and_notify_views(result, ctx) ==
    IF ~result.returned THEN update_timeout_mutant(ctx)
    ELSE IF result.is_incompetent THEN update_incompetent_mutant(ctx)
    ELSE IF result.is_survived THEN update_survived_mutant(ctx)
    ELSE update_killed_mutant(ctx)

\* create_mutant_module returning None without notify_incompetent.
create_mutant_module_silent(outcome, ctx) ==
    [module |-> outcome = "module", ctx |-> ctx, tests_run |-> <<>>]

\* create_mutant_module telling the views of one test run.
create_mutant_module_one_test(outcome, ctx) ==
    IF outcome = "module"
    THEN [module |-> TRUE, ctx |-> ctx, tests_run |-> <<>>]
    ELSE [module |-> FALSE, ctx |-> notify(ctx, "incompetent"), tests_run |-> <<{1}>>]

\* create_mutant_module: utils.create_module either returns the module or raises;
\* every exception, KeyboardInterrupt included (except BaseException), is turned
\* into notify_incompetent and a None return value. tests_run holds the values
\* the tests_run argument of that notification may have: the literal 0.
create_mutant_module(outcome, ctx) ==
    IF outcome = "module"
    THEN [module |-> TRUE, ctx |-> ctx, tests_run |-> <<>>]
    ELSE [module |-> FALSE, ctx |-> notify(ctx, "incompetent"), tests_run |-> <<{0}>>]

\* The record kept of a yielded mutant.
Mutant(fate, result, ctx) ==
    [fate |-> fate, result |-> result, notes |-> ctx.notes, calls |-> ctx.calls]

SetFate(h, fate) ==
    IF Len(h) > 0 /\ h[Len(h)].fate = "in_progress"
    THEN [h EXCEPT ![Len(h)].fate = fate]
    ELSE h

\* ------------------------------------------------------ run_tests_with_mutant

\* The location markers the coverage injector gives to nodes.
Markers == {1, 2}

\* What run_test may measure for one test module, in whole seconds.
Durations == {0, 1}

\* The values self.timeout_factor is configured with: 5 is the default.
TimeoutFactors == {1, 5}

\* A key of sys.modules.
Module(name, n) == [name |-> name, n |-> n]

\* The modules imported before the controller is constructed.
Builtins == {Module("sys", 0), Module("unittest", 0)}

\* What test_loader.load() leaves in sys.modules when it has yielded n test
\* modules: the test modules and, through their imports, the module under test.
loaded_modules(n, target) ==
    {Module("test", i) : i \in 1..n}
    \cup (IF n > 0 /\ target > 0 THEN {Module("target", target)} ELSE {})

\* remove_loaded_modules with its loop body left out.
remove_loaded_modules_kept(modules, init) == modules

\* remove_loaded_modules: every key that is not in self.init_modules is deleted.
remove_loaded_modules(modules, init) ==
    modules \ {module \in modules : module \notin init}

\* The suite create_test_suite builds from n test modules: suite.addTests adds
\* the class-level suites of each module's suite; module i holds one test case, i.
TestSuite(owner, n) ==
    [mutant |-> owner, tests |-> [i \in 1..n |-> <<i>>], skipped |-> {}]

\* create_test_suite as a whole: the cache is reset, then the n test modules
\* are loaded again.
create_test_suite(modules, init, n, target, owner) ==
    [sys_modules |-> remove_loaded_modules(modules, init) \cup loaded_modules(n, target),
     suite |-> TestSuite(owner, n)]

\* iter_tests: the test cases reached by iterating the suite and the suites in it.
iter_tests(tests) ==
    UNION {{tests[i][j] : j \in 1..Len(tests[i])} : i \in 1..Len(tests)}

isdisjoint(a, b) == a \cap b = {}

\* add_skip applied when the mutated nodes and the covered nodes do meet.
mark_covered_tests_as_skip(mutated_nodes, test_covered_nodes, s) ==
    [s EXCEPT !.skipped = {test \in iter_tests(s.tests) :
                              ~isdisjoint(mutated_nodes, test_covered_nodes[test])}]

\* mark_not_covered_tests_as_skip: add_skip wraps the test method of every test
\* case whose covered nodes are disjoint from the mutated nodes.
mark_not_covered_tests_as_skip(mutated_nodes, test_covered_nodes, s) ==
    [s EXCEPT !.skipped = {test \in iter_tests(s.tests) :
                              isdisjoint(mutated_nodes, test_covered_nodes[test])}]

\* The deadline without the floor of one second.
live_time_unfloored(factor, total) == factor * total

\* run_mutation_test_runner, line 285.
live_time(factor, total) == factor * (IF total > 1 THEN total ELSE 1)

\* A runner object created on the suite of mutant owner (0: not a mutant's suite).
Runner(owner) == [suite |-> owner, live_time |-> 0, calls |-> <<>>]

\* test_runner_class(suite=suite) followed by test_runner.start().
start(rs, owner) ==
    Append(rs, [Runner(owner) EXCEPT !.calls = <<"start">>])

\* test_runner.get_result(live_time) on the runner created last.
get_result(rs, time) ==
    [rs EXCEPT ![Len(rs)].calls = Append(@, "get_result"), ![Len(rs)].live_time = time]

\* run_mutation_test_runner returning without test_runner.terminate().
terminate_skipped(rs) == rs

\* test_runner.terminate() on the runner created last.
terminate(rs) ==
    [rs EXCEPT ![Len(rs)].calls = Append(@, "terminate")]

\* The values result.tests_run may have when the views are told of a result
\* (notify_timeout takes no tests_run).
result_tests_run(res, s) ==
    IF res.returned THEN <<0..Cardinality(iter_tests(s.tests))>> ELSE <<>>

\* --------------------------------------------------------------------- run()

NoFault == [exc |-> "none", phase |-> "none"]

NoInterrupt == [received |-> FALSE, phase |-> "none", score |-> MutationScore, yielded |-> 0]

\* What run_mutation_process lets through: it catches KeyboardInterrupt only.
run_mutation_process_raises(exc) ==
    IF exc = "KeyboardInterrupt" THEN "none" ELSE exc

\* run() handling TestsFailAtOriginal after the score is reported: notify_end
\* inside the except clause, and the exit status of the load failure.
run_fail_as_load_error(exc, v, s, created) ==
    IF exc = "TestsFailAtOriginal"
    THEN [pc |-> "exited", exit_status |-> -2, raised |-> "none",
          views |-> v \o <<"end", "original_tests_fail">>, reported |-> <<s>>]
    ELSE IF exc \in {"none", "KeyboardInterrupt"} /\ created
    THEN [pc |-> "returned", exit_status |-> 0, raised |-> "none",
          views |-> Append(v, "end"), reported |-> <<s>>]
    ELSE IF exc = "ModulesLoaderException"
    THEN [pc |-> "exited", exit_status |-> -2, raised |-> "none",
          views |-> Append(v, "cant_load"), reported |-> <<>>]
    ELSE [pc |-> "crashed", exit_status |-> 0, raised |-> "AttributeError",
          views |-> v, reported |-> <<>>]

\* The rest of run() once run_mutation_process has returned or raised exc:
\* notify_end(self.score, ...) on a return, the two except clauses otherwise.
\* Reading self.score before it was assigned raises AttributeError.
run(exc, v, s, created) ==
    LET out == run_mutation_process_raises(exc)
    IN  CASE out = "none" ->
               IF created
               THEN [pc |-> "returned", exit_status |-> 0, raised |-> "none",
                     views |-> Append(v, "end"), reported |-> <<s>>]
               ELSE [pc |-> "crashed", exit_status |-> 0, raised |-> "AttributeError",
                     views |-> v, reported |-> <<>>]
          [] out = "TestsFailAtOriginal" ->
               [pc |-> "exited", exit_status |-> -1, raised |-> "none",
                views |-> Append(v, "original_tests_fail"), reported |-> <<>>]
          [] out = "ModulesLoaderException" ->
               [pc |-> "exited", exit_status |-> -2, raised |-> "none",
                views |-> Append(v, "cant_load"), reported |-> <<>>]
          [] OTHER ->
               [pc |-> "crashed", exit_status |-> 0, raised |-> out,
                views |-> v, reported |-> <<>>]

\* run_mutation_process ends (normally, or with exc) and run() finishes.
Finish(exc) ==
    LET r == run(exc, views, score, score_created)
    IN  /\ pc' = r.pc
        /\ exit_status' = r.exit_status
        /\ raised' = r.raised
        /\ views' = r.views
        /\ reported' = r.reported
        /\ hist' = SetFate(hist, "aborted")

Raise(exc) ==
    /\ fault' = [exc |-> exc, phase |-> pc]
    /\ Finish(exc)

\* ------------------------------------------------------------ HOM strategies

\* Longest list of mutations handed to generate().
MaxLen == 3
\* Largest order a strategy is configured with.
MaxOrder == 2

\* The strategy classes of hom_strategies, by their name attribute.
Strategies == {"FIRST_TO_LAST", "EACH_CHOICE", "BETWEEN_OPERATORS", "RANDOM"}

\* The operators a mutation may carry.
Operators == {"AOR", "COI"}

\* The nodes of the target's tree: node 1 is the root, nodes 2 and 3 are its
\* children, node 4 is the child of node 2. parent[n] is n's parent (0: none).
parent == <<0, 1, 1, 2>>

Nodes == DOMAIN parent

RECURSIVE ancestors(_)
ancestors(n) == IF parent[n] = 0 THEN {} ELSE {parent[n]} \cup ancestors(parent[n])

\* node.children, as utils.ParentNodeTransformer fills it: every node below n.
children(n) == {m \in Nodes : n \in ancestors(m)}

\* list.pop(index) and list.remove(x) on a list of distinct objects.
ListWithout(list, pos) ==
    [i \in 1..(Len(list) - 1) |-> IF i < pos THEN list[i] ELSE list[i + 1]]

list_remove(list, x) == SelectSeq(list, LAMBDA y : y # x)

\* A second name for the same list object instead of a copy.
slice_alias(heap, ref) == [heap |-> heap, ref |-> ref]

\* mutations[:]: a new list object holding the same elements.
slice(heap, ref) == [heap |-> Append(heap, heap[ref]), ref |-> Len(heap) + 1]

\* bad_mutation without the test for a node below the applied mutation's node.
bad_mutation_no_descendant(mutation_to_apply, available_mutation, allow_same_operators) ==
    LET a == mutation[mutation_to_apply]
        b == mutation[available_mutation]
    IN  \/ a.node = b.node
        \/ a.node \in children(b.node)
        \/ (~allow_same_operators /\ a.operator = b.operator)

\* The condition of remove_bad_mutations under which available_mutation is removed.
bad_mutation(mutation_to_apply, available_mutation, allow_same_operators) ==
    LET a == mutation[mutation_to_apply]
        b == mutation[available_mutation]
    IN  \/ a.node = b.node
        \/ a.node \in children(b.node)
        \/ b.node \in children(a.node)
        \/ (~allow_same_operators /\ a.operator = b.operator)

\* remove_bad_mutations emptying the list.
remove_bad_mutations_all(mutations_to_apply, available_mutations, allow_same_operators) ==
    <<>>

remove_bad_mutations(mutations_to_apply, available_mutations, allow_same_operators) ==
    SelectSeq(available_mutations,
              LAMBDA available_mutation :
                  \A i \in 1..Len(mutations_to_apply) :
                      ~bad_mutation(mutations_to_apply[i], available_mutation,
                                    allow_same_operators))

\* The inner while loop of FirstToLastHOMStrategy.generate: index is 0 or -1.
RECURSIVE FirstToLast_fill(_, _, _, _)
FirstToLast_fill(mutations_to_apply, available_mutations, remaining, index) ==
    IF Len(mutations_to_apply) < order /\ available_mutations # <<>>
    THEN LET pos == IF index = 0 THEN 1 ELSE Len(available_mutations)
             m == available_mutations[pos]
             applied == Append(mutations_to_apply, m)
         IN  FirstToLast_fill(applied,
                              remove_bad_mutations(applied, ListWithout(available_mutations, pos), TRUE),
                              list_remove(remaining, m),
                              IF index = -1 THEN 0 ELSE -1)
    ELSE [group |-> mutations_to_apply, mutations |-> remaining]

\* The inner while loop left after its first pass.
EachChoice_fill_single(mutations_to_apply, available_mutations, remaining) ==
    [group |-> <<available_mutations[1]>>,
     mutations |-> list_remove(remaining, available_mutations[1])]

\* The inner while loop of EachChoiceHOMStrategy.generate.
RECURSIVE EachChoice_fill(_, _, _)
EachChoice_fill(mutations_to_apply, available_mutations, remaining) ==
    IF Len(mutations_to_apply) < order /\ available_mutations # <<>>
    THEN LET m == available_mutations[1]
             applied == Append(mutations_to_apply, m)
         IN  EachChoice_fill(applied,
                             remove_bad_mutations(applied, Tail(available_mutations), TRUE),
                             list_remove(remaining, m))
    ELSE [group |-> mutations_to_apply, mutations |-> remaining]

\* The inner while loop of RandomHOMStrategy.generate taking the last
\* available mutation, pop(), instead of the first.
RECURSIVE Random_fill_last(_, _, _)
Random_fill_last(mutations_to_apply, available_mutations, remaining) ==
    IF Len(mutations_to_apply) < order /\ available_mutations # <<>>
    THEN LET m == available_mutations[Len(available_mutations)]
             applied == Append(mutations_to_apply, m)
         IN  Random_fill_last(applied,
                              remove_bad_mutations(applied,
                                  SubSeq(available_mutations, 1, Len(available_mutations) - 1),
                                  TRUE),
                              list_remove(remaining, m))
    ELSE [group |-> mutations_to_apply, mutations |-> remaining]

\* The inner while loop of RandomHOMStrategy.generate. pop(0) is reached only
\* with a non-empty list, so its except IndexError clause never runs.
RECURSIVE Random_fill(_, _, _)
Random_fill(mutations_to_apply, available_mutations, remaining) ==
    IF Len(mutations_to_apply) < order /\ available_mutations # <<>>
    THEN LET m == available_mutations[1]
             applied == Append(mutations_to_apply, m)
         IN  Random_fill(applied,
                         remove_bad_mutations(applied, Tail(available_mutations), TRUE),
                         list_remove(remaining, m))
    ELSE [group |-> mutations_to_apply, mutations |-> remaining]

\* The list left as it is, not sorted by usage.
sort_by_usage_skipped(list, use) == list

\* list.sort(key=lambda x: usage[x]): a stable sort, ascending.
RECURSIVE sort_by_usage(_, _)
sort_by_usage(list, use) ==
    IF list = <<>> THEN <<>>
    ELSE LET least == CHOOSE u \in {use[list[i]] : i \in 1..Len(list)} :
                          \A i \in 1..Len(list) : u <= use[list[i]]
         IN  SelectSeq(list, LAMBDA x : use[x] = least)
             \o sort_by_usage(SelectSeq(list, LAMBDA x : use[x] # least), use)

\* The inner while loop of BetweenOperatorsHOMStrategy.generate calling
\* remove_bad_mutations without allow_same_operators=False.
RECURSIVE BetweenOperators_fill_same_operators(_, _, _, _)
BetweenOperators_fill_same_operators(mutations_to_apply, available_mutations, unused, use) ==
    IF Len(mutations_to_apply) < order /\ available_mutations # <<>>
    THEN LET m == available_mutations[1]
             applied == Append(mutations_to_apply, m)
         IN  BetweenOperators_fill_same_operators(
                 applied,
                 remove_bad_mutations(applied, Tail(available_mutations), TRUE),
                 IF use[m] = 0 THEN list_remove(unused, m) ELSE unused,
                 [use EXCEPT ![m] = @ + 1])
    ELSE [group |-> mutations_to_apply, not_used |-> unused, usage |-> use]

\* The inner while loop of BetweenOperatorsHOMStrategy.generate.
RECURSIVE BetweenOperators_fill(_, _, _, _)
BetweenOperators_fill(mutations_to_apply, available_mutations, unused, use) ==
    IF Len(mutations_to_apply) < order /\ available_mutations # <<>>
    THEN LET m == available_mutations[1]
             applied == Append(mutations_to_apply, m)
         IN  BetweenOperators_fill(applied,
                                   remove_bad_mutations(applied, Tail(available_mutations), FALSE),
                                   IF use[m] = 0 THEN list_remove(unused, m) ELSE unused,
                                   [use EXCEPT ![m] = @ + 1])
    ELSE [group |-> mutations_to_apply, not_used |-> unused, usage |-> use]

\* The lists a shuffler may leave: the permutations of the list.
shuffles(list) ==
    {[i \in 1..Len(list) |-> list[p[i]]] :
        p \in {q \in [1..Len(list) -> 1..Len(list)] :
                  \A i, j \in 1..Len(list) : q[i] = q[j] => i = j}}

\* The generator's first resumption runs generate()'s lines before the loop.
GenerateStart ==
    /\ hom_pc = "created"
    /\ hom_pc' = "running"
    /\ IF strategy = "BETWEEN_OPERATORS"
       THEN LET c == slice(lists, mutations)
            IN  /\ usage' = [i \in 1..Len(lists[mutations]) |-> 0]
                /\ lists' = c.heap
                /\ not_used' = c.ref
                /\ UNCHANGED <<mutations, shuffler_calls, shuffled>>
       ELSE LET c == slice(lists, mutations)
            IN  /\ mutations' = c.ref
                /\ IF strategy = "RANDOM"
                   THEN /\ \E list \in shuffles(c.heap[c.ref]) :
                               /\ lists' = [c.heap EXCEPT ![c.ref] = list]
                               /\ shuffled' = list
                        /\ shuffler_calls' = shuffler_calls + 1
                   ELSE /\ lists' = c.heap
                        /\ UNCHANGED <<shuffler_calls, shuffled>>
                /\ UNCHANGED <<not_used, usage>>
    /\ UNCHANGED <<strategy, order, mutation, groups>>
    /\ UNCHANGED <<ctlVars, envVars, runVars>>

\* One pass of the outer while loop, up to its yield.
GenerateYield ==
    /\ hom_pc = "running"
    /\ IF strategy = "BETWEEN_OPERATORS"
       THEN /\ lists[not_used] # <<>>
            /\ LET r == BetweenOperators_fill(<<>>, sort_by_usage(lists[mutations], usage),
                                              lists[not_used], usage)
               IN  /\ groups' = Append(groups, r.group)
                   /\ lists' = [lists EXCEPT ![not_used] = r.not_used]
                   /\ usage' = r.usage
       ELSE /\ lists[mutations] # <<>>
            /\ LET r == IF strategy = "FIRST_TO_LAST"
                        THEN FirstToLast_fill(<<>>, lists[mutations], lists[mutations], 0)
                        ELSE IF strategy = "EACH_CHOICE"
                        THEN EachChoice_fill(<<>>, lists[mutations], lists[mutations])
                        ELSE Random_fill(<<>>, lists[mutations], lists[mutations])
               IN  /\ groups' = Append(groups, r.group)
                   /\ lists' = [lists EXCEPT ![mutations] = r.mutations]
            /\ UNCHANGED usage
    /\ UNCHANGED <<hom_pc, strategy, order, mutation, mutations, not_used,
                   shuffler_calls, shuffled>>
    /\ UNCHANGED <<ctlVars, envVars, runVars>>

\* The outer while loop's condition fails: the generator is exhausted.
GenerateStop ==
    /\ hom_pc = "running"
    /\ IF strategy = "BETWEEN_OPERATORS"
       THEN lists[not_used] = <<>>
       ELSE lists[mutations] = <<>>
    /\ hom_pc' = "done"
    /\ UNCHANGED <<strategy, order, mutation, lists, mutations, not_used, usage, groups,
                   shuffler_calls, shuffled>>
    /\ UNCHANGED <<ctlVars, envVars, runVars>>

\* ------------------------------------------------------------ specifications

\* No generation pass in progress.
HOMIdle ==
    /\ hom_pc = "idle"
    /\ strategy = "FIRST_TO_LAST"
    /\ order = 2
    /\ mutation = <<>>
    /\ lists = <<<<>>>>
    /\ mutations = 1
    /\ not_used = 0
    /\ usage = <<>>
    /\ groups = <<>>
    /\ shuffler_calls = 0
    /\ shuffled = <<>>

\* coverage_result of a run without coverage: None.
NoCoverage == [created |-> FALSE, test_covered_nodes |-> <<>>]

\* The objects as __init__ leaves them: store_init_modules has started a
\* runner on an empty suite and stored the keys of sys.modules.
Constructed ==
    /\ init_modules = Builtins
    /\ sys_modules = Builtins
    /\ total_duration = 0
    /\ coverage_result = NoCoverage
    /\ suite = TestSuite(0, 0)
    /\ runners = start(<<>>, 0)
    /\ last_result = NoneResult
    /\ tests_run = <<>>

\* The default timeout factor, test modules that take a second each, mutants
\* that mutate the node marked 1, which the first test case alone covers.
Defaults ==
    /\ timeout_factor = 5
    /\ durations = [i \in 1..MaxTests |-> 1]
    /\ covered = [t \in 1..MaxTests |-> IF t = 1 THEN {1} ELSE {}]
    /\ markers = [i \in 1..MaxMutants |-> {1}]

\* run() not yet called.
NotStarted ==
    /\ pc = "start"
    /\ exit_status = 0
    /\ raised = "none"
    /\ score = MutationScore
    /\ score_created = FALSE
    /\ reported = <<>>
    /\ views = <<>>
    /\ tests_loaded = 0
    /\ targets_loaded = 0
    /\ hist = <<>>
    /\ fault = NoFault
    /\ interrupt = NoInterrupt

Init ==
    /\ HOMIdle
    /\ Defaults
    /\ Constructed
    /\ NotStarted
    /\ mutation_number \in 0..MaxMutants
    /\ mutate_covered \in BOOLEAN

\* run(): notify_initialize, then run_mutation_process starts loading the tests.
RunStart ==
    /\ pc = "start"
    /\ pc' = "load_and_check_tests"
    /\ views' = Append(views, "initialize")
    /\ UNCHANGED <<exit_status, raised, score, score_created, reported, mutation_number,
                   mutate_covered, tests_loaded, targets_loaded, hist, fault, interrupt>>
    /\ UNCHANGED runVars
    /\ UNCHANGED <<envVars, homVars>>

\* load_and_check_tests: test_loader.load() yields a module whose tests pass;
\* its duration is added to total_duration.
BaselinePass ==
    /\ pc = "load_and_check_tests"
    /\ tests_loaded < MaxTests
    /\ tests_loaded' = tests_loaded + 1
    /\ total_duration' = total_duration + durations[tests_loaded + 1]
    /\ sys_modules' = sys_modules \cup {Module("test", tests_loaded + 1)}
    /\ UNCHANGED <<coverage_result, suite, runners, last_result, tests_run>>
    /\ UNCHANGED <<pc, exit_status, raised, score, score_created, reported, views,
                   mutation_number, mutate_covered, targets_loaded, hist, fault, interrupt>>
    /\ UNCHANGED <<envVars, homVars>>

\* load_and_check_tests: a module's result is not successful: TestsFailAtOriginal.
BaselineFail ==
    /\ pc = "load_and_check_tests"
    /\ tests_loaded < MaxTests
    /\ Raise("TestsFailAtOriginal")
    /\ sys_modules' = sys_modules \cup {Module("test", tests_loaded + 1)}
    /\ UNCHANGED <<total_duration, coverage_result, suite, runners, last_result, tests_run>>
    /\ UNCHANGED <<score, score_created, mutation_number, mutate_covered, tests_loaded,
                   targets_loaded, interrupt>>
    /\ UNCHANGED <<envVars, homVars>>

\* test_loader.load() raises ModulesLoaderException while the baseline is loaded.
BaselineLoadError ==
    /\ pc = "load_and_check_tests"
    /\ Raise("ModulesLoaderException")
    /\ UNCHANGED runVars
    /\ UNCHANGED <<score, score_created, mutation_number, mutate_covered, tests_loaded,
                   targets_loaded, interrupt>>
    /\ UNCHANGED <<envVars, homVars>>

\* load_and_check_tests returns: notify_passed, notify_start, self.score = MutationScore().
BaselineDone ==
    /\ pc = "load_and_check_tests"
    /\ views' = views \o <<"passed", "start">>
    /\ score' = MutationScore
    /\ score_created' = TRUE
    /\ pc' = "target_loader"
    /\ UNCHANGED <<exit_status, raised, reported, mutation_number, mutate_covered,
                   tests_loaded, targets_loaded, hist, fault, interrupt>>
    /\ UNCHANGED runVars
    /\ UNCHANGED <<envVars, homVars>>

\* target_loader.load() yields a target: mutate_module builds the tree and, in
\* coverage mode, goes on to inject_coverage.
TargetNext ==
    /\ pc = "target_loader"
    /\ targets_loaded < MaxTargets
    /\ targets_loaded' = targets_loaded + 1
    /\ pc' = IF mutate_covered THEN "inject_coverage" ELSE "mutant_generator"
    /\ sys_modules' = sys_modules \cup {Module("target", targets_loaded + 1)}
    /\ coverage_result' = NoCoverage
    /\ UNCHANGED <<total_duration, suite, runners, last_result, tests_run>>
    /\ UNCHANGED <<exit_status, raised, score, score_created, reported, views,
                   mutation_number, mutate_covered, tests_loaded, hist, fault, interrupt>>
    /\ UNCHANGED <<envVars, homVars>>

\* target_loader.load() raises ModulesLoaderException.
TargetLoadError ==
    /\ pc = "target_loader"
    /\ Raise("ModulesLoaderException")
    /\ UNCHANGED runVars
    /\ UNCHANGED <<score, score_created, mutation_number, mutate_covered, tests_loaded,
                   targets_loaded, interrupt>>
    /\ UNCHANGED <<envVars, homVars>>

\* The loop over the targets ends: run_mutation_process returns.
TargetsDone ==
    /\ pc = "target_loader"
    /\ Finish("none")
    /\ UNCHANGED runVars
    /\ UNCHANGED <<score, score_created, mutation_number, mutate_covered, tests_loaded,
                   targets_loaded, fault, interrupt>>
    /\ UNCHANGED <<envVars, homVars>>

\* inject_coverage: create_test_suite re-loads the test modules, the suite runs
\* on the instrumented module, and the score takes the injector's node counts.
InjectCoverage ==
    /\ pc = "inject_coverage"
    /\ \E covered_nodes \in 0..1 :
           score' = update_coverage(score, covered_nodes, 1)
    /\ LET c == create_test_suite(sys_modules, init_modules, tests_loaded, targets_loaded, 0)
       IN  /\ sys_modules' = c.sys_modules
           /\ suite' = c.suite
           /\ coverage_result' =
                  [created |-> TRUE,
                   test_covered_nodes |-> [t \in iter_tests(c.suite.tests) |-> covered[t]]]
    /\ pc' = "mutant_generator"
    /\ UNCHANGED <<total_duration, runners, last_result, tests_run>>
    /\ UNCHANGED <<exit_status, raised, score_created, reported, views, mutation_number,
                   mutate_covered, tests_loaded, targets_loaded, hist, fault, interrupt>>
    /\ UNCHANGED <<envVars, homVars>>

\* inject_coverage: test_loader.load() raises in create_test_suite.
InjectCoverageLoadError ==
    /\ pc = "inject_coverage"
    /\ Raise("ModulesLoaderException")
    /\ sys_modules' = remove_loaded_modules(sys_modules, init_modules)
    /\ UNCHANGED <<total_duration, coverage_result, suite, runners, last_result, tests_run>>
    /\ UNCHANGED <<score, score_created, mutation_number, mutate_covered, tests_loaded,
                   targets_loaded, interrupt>>
    /\ UNCHANGED <<envVars, homVars>>

\* mutate_module: the generator yields a mutant. The mutation-number filter
\* either counts it incompetent and continues, or lets it through to
\* notify_mutation and create_mutant_module.
MutantNext ==
    /\ pc = "mutant_generator"
    /\ Len(hist) < MaxMutants
    /\ LET number == all_mutants(score) + 1
       IN  IF mutation_number # 0 /\ mutation_number # number
           THEN /\ score' = inc_incompetent(score)
                /\ hist' = Append(hist, Mutant("filtered", NoneResult, Ctx(score, views)))
                /\ UNCHANGED <<pc, views>>
           ELSE /\ views' = Append(views, "mutation")
                /\ hist' = Append(hist, Mutant("in_progress", NoneResult, Ctx(score, views)))
                /\ pc' = "create_mutant_module"
                /\ UNCHANGED score
    /\ tests_run' = Append(tests_run, <<>>)
    /\ UNCHANGED <<total_duration, sys_modules, coverage_result, suite, runners, last_result>>
    /\ UNCHANGED <<exit_status, raised, score_created, reported, mutation_number,
                   mutate_covered, tests_loaded, targets_loaded, fault, interrupt>>
    /\ UNCHANGED <<envVars, homVars>>

\* The generator is exhausted: mutate_module returns to the loop over the targets.
MutantsDone ==
    /\ pc = "mutant_generator"
    /\ pc' = "target_loader"
    /\ UNCHANGED <<exit_status, raised, score, score_created, reported, views,
                   mutation_number, mutate_covered, tests_loaded, targets_loaded,
                   hist, fault, interrupt>>
    /\ UNCHANGED runVars
    /\ UNCHANGED <<envVars, homVars>>

\* The generator is a HighOrderMutator and an assert of its fails when it is
\* resumed: 'no mutations!' while the next group's mutations are applied (an
\* operator's generator yields nothing), or 'too many mutations!' in
\* finish_generators after the mutant yielded before (a generator yields
\* again). Neither mutate_module nor run_mutation_process catches it.
GeneratorAssertion ==
    /\ pc = "mutant_generator"
    /\ Raise("AssertionError")
    /\ UNCHANGED runVars
    /\ UNCHANGED <<score, score_created, mutation_number, mutate_covered, tests_loaded,
                   targets_loaded, interrupt>>
    /\ UNCHANGED <<envVars, homVars>>

\* mutate_module lines 169-173: create_mutant_module, then either on to
\* run_tests_with_mutant or inc_incompetent. A KeyboardInterrupt delivered
\* while the module is created is one of the exceptions caught there.
Materialize ==
    /\ pc = "create_mutant_module"
    /\ \E outcome \in {"module", "Exception", "KeyboardInterrupt"} :
         LET r == create_mutant_module(outcome, Ctx(score, views))
         IN  /\ views' = r.ctx.views
             /\ tests_run' = [tests_run EXCEPT ![Len(hist)] = r.tests_run]
             /\ IF r.module
                THEN /\ pc' = "create_test_suite"
                     /\ UNCHANGED <<score, hist>>
                ELSE /\ score' = inc_incompetent(r.ctx.score)
                     /\ hist' = [hist EXCEPT ![Len(hist)] =
                                    Mutant("materialize_failed", NoneResult, r.ctx)]
                     /\ pc' = "mutant_generator"
             /\ interrupt' =
                  IF outcome = "KeyboardInterrupt" /\ ~interrupt.received
                  THEN [received |-> TRUE, phase |-> pc, score |-> score,
                        yielded |-> Len(hist)]
                  ELSE interrupt
    /\ UNCHANGED <<total_duration, sys_modules, coverage_result, suite, runners, last_result>>
    /\ UNCHANGED <<exit_status, raised, score_created, reported, mutation_number,
                   mutate_covered, tests_loaded, targets_loaded, fault>>
    /\ UNCHANGED <<envVars, homVars>>

\* run_tests_with_mutant, create_test_suite lines 235-237: an empty suite, the
\* importer of the mutant module installed, the module cache reset.
RemoveLoadedModules ==
    /\ pc = "create_test_suite"
    /\ pc' = "test_loader_load"
    /\ suite' = TestSuite(Len(hist), 0)
    /\ sys_modules' = remove_loaded_modules(sys_modules, init_modules)
    /\ UNCHANGED <<total_duration, coverage_result, runners, last_result, tests_run>>
    /\ UNCHANGED <<exit_status, raised, score, score_created, reported, views,
                   mutation_number, mutate_covered, tests_loaded, targets_loaded,
                   hist, fault, interrupt>>
    /\ UNCHANGED <<envVars, homVars>>

\* create_test_suite lines 238-241: test_loader.load() yields the test modules
\* again and their tests are added to the suite; back in run_tests_with_mutant,
\* the tests that do not cover the mutated nodes are marked when there is a
\* coverage_result.
CreateTestSuite ==
    /\ pc = "test_loader_load"
    /\ pc' = "run_mutation_test_runner"
    /\ sys_modules' = sys_modules \cup loaded_modules(tests_loaded, targets_loaded)
    /\ LET loaded == TestSuite(Len(hist), tests_loaded)
       IN  suite' = IF coverage_result.created
                    THEN mark_not_covered_tests_as_skip(markers[Len(hist)],
                                                        coverage_result.test_covered_nodes,
                                                        loaded)
                    ELSE loaded
    /\ UNCHANGED <<total_duration, coverage_result, runners, last_result, tests_run>>
    /\ UNCHANGED <<exit_status, raised, score, score_created, reported, views,
                   mutation_number, mutate_covered, tests_loaded, targets_loaded,
                   hist, fault, interrupt>>
    /\ UNCHANGED <<envVars, homVars>>

\* create_test_suite: test_loader.load() raises ModulesLoaderException.
CreateTestSuiteLoadError ==
    /\ pc = "test_loader_load"
    /\ Raise("ModulesLoaderException")
    /\ UNCHANGED runVars
    /\ UNCHANGED <<score, score_created, mutation_number, mutate_covered, tests_loaded,
                   targets_loaded, interrupt>>
    /\ UNCHANGED <<envVars, homVars>>

\* run_mutation_test_runner lines 285-289: a runner is created on the suite
\* and started.
RunnerStart ==
    /\ pc = "run_mutation_test_runner"
    /\ pc' = "get_result"
    /\ runners' = start(runners, Len(hist))
    /\ UNCHANGED <<total_duration, sys_modules, coverage_result, suite, last_result, tests_run>>
    /\ UNCHANGED <<exit_status, raised, score, score_created, reported, views,
                   mutation_number, mutate_covered, tests_loaded, targets_loaded,
                   hist, fault, interrupt>>
    /\ UNCHANGED <<envVars, homVars>>

\* run_mutation_test_runner line 290: get_result(live_time) returns the
\* runner's result, or None when live_time has passed.
GetResult ==
    /\ pc = "get_result"
    /\ pc' = "terminate"
    /\ \E res \in Results : last_result' = res
    /\ runners' = get_result(runners, live_time(timeout_factor, total_duration))
    /\ UNCHANGED <<total_duration, sys_modules, coverage_result, suite, tests_run>>
    /\ UNCHANGED <<exit_status, raised, score, score_created, reported, views,
                   mutation_number, mutate_covered, tests_loaded, targets_loaded,
                   hist, fault, interrupt>>
    /\ UNCHANGED <<envVars, homVars>>

\* run_mutation_test_runner line 291 and the rest of run_tests_with_mutant:
\* the runner is terminated and update_score_and_notify_views classifies the
\* result.
RunTests ==
    /\ pc = "terminate"
    /\ runners' = terminate(runners)
    /\ tests_run' = [tests_run EXCEPT ![Len(hist)] = result_tests_run(last_result, suite)]
    /\ LET c == update_score_and_notify_views(last_result, Ctx(score, views))
       IN  /\ score' = c.score
           /\ views' = c.views
           /\ hist' = [hist EXCEPT ![Len(hist)] = Mutant("tested", last_result, c)]
    /\ pc' = "mutant_generator"
    /\ UNCHANGED <<total_duration, sys_modules, coverage_result, suite, last_result>>
    /\ UNCHANGED <<exit_status, raised, score_created, reported, mutation_number,
                   mutate_covered, tests_loaded, targets_loaded, fault, interrupt>>
    /\ UNCHANGED <<envVars, homVars>>

\* Where a KeyboardInterrupt propagates to run_mutation_process.
InterruptiblePhases ==
    {"load_and_check_tests", "target_loader", "inject_coverage", "mutant_generator",
     "create_test_suite", "test_loader_load", "run_mutation_test_runner",
     "get_result", "terminate"}

\* A KeyboardInterrupt outside create_mutant_module: run_mutation_process
\* catches it and run() goes on to notify_end.
KeyboardInterrupt ==
    /\ pc \in InterruptiblePhases
    /\ interrupt' =
         IF ~interrupt.received
         THEN [received |-> TRUE, phase |-> pc, score |-> score, yielded |-> Len(hist)]
         ELSE interrupt
    /\ Finish("KeyboardInterrupt")
    /\ UNCHANGED runVars
    /\ UNCHANGED <<score, score_created, mutation_number, mutate_covered, tests_loaded,
                   targets_loaded, fault>>
    /\ UNCHANGED <<envVars, homVars>>

Next ==
    \/ RunStart
    \/ BaselinePass
    \/ BaselineFail
    \/ BaselineLoadError
    \/ BaselineDone
    \/ TargetNext
    \/ TargetLoadError
    \/ TargetsDone
    \/ InjectCoverage
    \/ InjectCoverageLoadError
    \/ MutantNext
    \/ MutantsDone
    \/ GeneratorAssertion
    \/ Materialize
    \/ RemoveLoadedModules
    \/ CreateTestSuite
    \/ CreateTestSuiteLoadError
    \/ RunnerStart
    \/ GetResult
    \/ RunTests
    \/ KeyboardInterrupt

Spec == Init /\ [][Next]_vars

\* A controller without coverage and without the filter, of any timeout factor,
\* over test modules of any durations.
InitDeadline ==
    /\ HOMIdle
    /\ Constructed
    /\ NotStarted
    /\ mutation_number = 0
    /\ mutate_covered = FALSE
    /\ timeout_factor \in TimeoutFactors
    /\ durations \in [1..MaxTests -> Durations]
    /\ covered = [t \in 1..MaxTests |-> {}]
    /\ markers = [i \in 1..MaxMutants |-> {1}]

\* The steps of a run without coverage in which no loader raises, no assert
\* fails and no interrupt arrives outside create_mutant_module.
NextUncovered ==
    \/ RunStart
    \/ BaselinePass
    \/ BaselineFail
    \/ BaselineDone
    \/ TargetNext
    \/ TargetsDone
    \/ MutantNext
    \/ MutantsDone
    \/ Materialize
    \/ RemoveLoadedModules
    \/ CreateTestSuite
    \/ RunnerStart
    \/ GetResult
    \/ RunTests

SpecDeadline == InitDeadline /\ [][NextUncovered]_vars

\* A controller in coverage mode whose filter lets one mutant through, over
\* every coverage of the test cases and every set of mutated nodes.
InitCoverage ==
    /\ HOMIdle
    /\ Constructed
    /\ NotStarted
    /\ mutation_number \in 1..MaxMutants
    /\ mutate_covered = TRUE
    /\ timeout_factor = 5
    /\ durations = [i \in 1..MaxTests |-> 1]
    /\ covered \in [1..MaxTests -> SUBSET Markers]
    /\ \E mutated_nodes \in (SUBSET Markers) \ {{}} :
           markers = [i \in 1..MaxMutants |-> mutated_nodes]

\* The steps of a run in coverage mode in which the baseline passes, no loader
\* raises, no assert fails and no interrupt arrives outside create_mutant_module.
NextCovered ==
    \/ RunStart
    \/ BaselinePass
    \/ BaselineDone
    \/ TargetNext
    \/ TargetsDone
    \/ InjectCoverage
    \/ MutantNext
    \/ MutantsDone
    \/ Materialize
    \/ RemoveLoadedModules
    \/ CreateTestSuite
    \/ RunnerStart
    \/ GetResult
    \/ RunTests

SpecCoverage == InitCoverage /\ [][NextCovered]_vars

\* A strategy object of some order, and generate() called on a list of mutations.
InitHOM ==
    /\ Defaults
    /\ Constructed
    /\ pc = "start"
    /\ exit_status = 0
    /\ raised = "none"
    /\ score = MutationScore
    /\ score_created = FALSE
    /\ reported = <<>>
    /\ views = <<>>
    /\ mutation_number = 0
    /\ mutate_covered = FALSE
    /\ tests_loaded = 0
    /\ targets_loaded = 0
    /\ hist = <<>>
    /\ fault = NoFault
    /\ interrupt = NoInterrupt
    /\ hom_pc = "created"
    /\ strategy \in Strategies
    /\ order \in 1..MaxOrder
    /\ \E n \in 0..MaxLen :
           /\ mutation \in [1..n -> [node : Nodes, operator : Operators]]
           /\ lists = <<[i \in 1..n |-> i]>>
    /\ mutations = 1
    /\ not_used = 0
    /\ usage = <<>>
    /\ groups = <<>>
    /\ shuffler_calls = 0
    /\ shuffled = <<>>

NextHOM ==
    \/ GenerateStart
    \/ GenerateYield
    \/ GenerateStop

SpecHOM == InitHOM /\ [][NextHOM]_vars

\* generate() called on a BetweenOperatorsHOMStrategy object.
InitBetweenOperators == InitHOM /\ strategy = "BETWEEN_OPERATORS"

\* A Between-Operators pass whose consumer (the for loop of
\* HighOrderMutator.mutate) keeps resuming the generator until it is exhausted.
FairSpecBetweenOperators ==
    InitBetweenOperators /\ [][NextHOM]_vars /\ WF_vars(NextHOM)

\* ------------------------------------------------------------------- claims

\* The mutants whose pass through mutate_module's loop body has completed.
InList(x, list) == \E i \in 1..Len(list) : list[i] = x

Completed == {i \in 1..Len(hist) : hist[i].fate \in {"filtered", "materialize_failed", "tested"}}

Processed == Cardinality(Completed)

Counters == {"killed_mutants", "timeout_mutants", "incompetent_mutants", "survived_mutants"}

\* t is s with counter k one higher and every other counter as it was.
IncrementedOnly(s, t, k) ==
    /\ t[k] = s[k] + 1
    /\ \A c \in Counters \ {k} : t[c] = s[c]

CounterOfNote(note) ==
    CASE note = "timeout" -> "timeout_mutants"
      [] note = "incompetent" -> "incompetent_mutants"
      [] note = "survived" -> "survived_mutants"
      [] note = "killed" -> "killed_mutants"
      [] OTHER -> "none"

\* C1: processing one mutant (filter-skipped, materialization-failed, timed out,
\* incompetent, survived or killed) increments exactly one of the four counters
\* by exactly 1, no step decrements a counter or changes one without processing
\* a mutant, and all_mutants equals the number of mutants processed.
C1_OneCounterPerMutant ==
    /\ [](all_mutants(score) = Processed)
    /\ [][/\ Processed' = Processed + 1 =>
                \E k \in Counters : IncrementedOnly(score, score', k)
          /\ Processed' = Processed =>
                \A k \in Counters : score'[k] = score[k]
          /\ Processed' \in {Processed, Processed + 1}
          /\ \A k \in Counters : score'[k] >= score[k]]_vars

\* C1's case: three mutants processed in one run, two of them skipped by the
\* filter and the one between them tested and killed.
C1_Witness ==
    /\ Len(hist) = 3
    /\ hist[1].fate = "filtered"
    /\ hist[2].fate = "tested" /\ hist[2].notes = <<"killed">>
    /\ hist[3].fate = "filtered"
    /\ score.incompetent_mutants = 2
    /\ score.killed_mutants = 1

\* C2: count() is 0 whenever all_mutants = incompetent_mutants (the empty run
\* included); otherwise it is the value s with
\* s * (all_mutants - incompetent_mutants) = 100 * (killed_mutants + timeout_mutants);
\* in every reachable counter state it lies between 0 and 100.
C2_CountValue ==
    LET s == count(score)
        bottom == all_mutants(score) - score.incompetent_mutants
    IN  /\ s[2] > 0
        /\ all_mutants(score) = score.incompetent_mutants => s = <<0, 1>>
        /\ all_mutants(score) # score.incompetent_mutants =>
               s[1] * bottom = 100 * (score.killed_mutants + score.timeout_mutants) * s[2]
        /\ 0 <= s[1]
        /\ s[1] <= 100 * s[2]

\* C2's case: a score strictly between 0 and 100 with an incompetent mutant counted.
C2_Witness ==
    /\ score.incompetent_mutants = 1
    /\ score.survived_mutants = 1
    /\ score.killed_mutants + score.timeout_mutants = 1
    /\ count(score) = <<100, 2>>

\* C3 as stated: every mutant the controller counts, one skipped by the
\* mutation-number filter included, gets exactly one classification
\* notification, of the kind of the counter incremented for it.
C3_OneNotificationPerMutant ==
    [][Processed' = Processed + 1 =>
          LET m == hist'[Len(hist')]
          IN  /\ Len(m.notes) = 1
              /\ IncrementedOnly(score, score', CounterOfNote(m.notes[1]))]_vars

\* C3 amended: a mutant that is materialized (whether materialization fails or
\* its tests run) gets exactly one classification notification, of the kind of
\* the counter incremented for it; a mutant skipped by the mutation-number
\* filter gets the incompetent increment and no notification.
C3_OneNotificationUnlessFiltered ==
    [][Processed' = Processed + 1 =>
          LET m == hist'[Len(hist')]
          IN  IF m.fate = "filtered"
              THEN /\ m.notes = <<>>
                   /\ views' = views
                   /\ IncrementedOnly(score, score', "incompetent_mutants")
              ELSE /\ Len(m.notes) = 1
                   /\ views' = Append(views, m.notes[1])
                   /\ IncrementedOnly(score, score', CounterOfNote(m.notes[1]))]_vars

\* C3's case: a filtered mutant and a mutant whose materialization failed have
\* been counted, and the one notify_incompetent sent is the latter's.
C3_Witness ==
    /\ \E i \in Completed : hist[i].fate = "filtered" /\ hist[i].notes = <<>>
    /\ \E i \in Completed :
           hist[i].fate = "materialize_failed" /\ hist[i].notes = <<"incompetent">>
    /\ score.incompetent_mutants = 2
    /\ Cardinality({j \in 1..Len(views) : views[j] = "incompetent"}) = 1

\* C4: a tested mutant is classified by strict priority: timeout if and only if
\* the runner returned no result; otherwise incompetent if the result is flagged
\* incompetent, even when it is also flagged survived; otherwise survived if
\* flagged survived; otherwise killed. Exactly one update operation runs.
C4_ClassificationPriority ==
    \A i \in 1..Len(hist) :
        hist[i].fate = "tested" =>
            LET r == hist[i].result
                calls == hist[i].calls
            IN  /\ Len(calls) = 1
                /\ (calls = <<"update_timeout_mutant">>) <=> ~r.returned
                /\ (r.returned /\ r.is_incompetent) => calls = <<"update_incompetent_mutant">>
                /\ (r.returned /\ ~r.is_incompetent /\ r.is_survived)
                       => calls = <<"update_survived_mutant">>
                /\ (r.returned /\ ~r.is_incompetent /\ ~r.is_survived)
                       => calls = <<"update_killed_mutant">>

\* C4's case: a result flagged both incompetent and survived has been classified.
C4_Witness ==
    \E i \in 1..Len(hist) :
        /\ hist[i].fate = "tested"
        /\ hist[i].result = [returned |-> TRUE, is_incompetent |-> TRUE, is_survived |-> TRUE]
        /\ hist[i].calls = <<"update_incompetent_mutant">>
        /\ score.incompetent_mutants >= 1


\* C8: when a baseline test module's result is not successful the run ends with
\* exit status -1 right after notify_original_tests_fail: no score object, no
\* mutant generated, materialized or tested, and none of notify_passed,
\* notify_start, notify_end.
C8_BaselineFailureAborts ==
    fault.exc = "TestsFailAtOriginal" =>
        /\ pc = "exited"
        /\ exit_status = -1
        /\ raised = "none"
        /\ views[Len(views)] = "original_tests_fail"
        /\ ~score_created
        /\ hist = <<>>
        /\ reported = <<>>
        /\ \A n \in {"passed", "start", "end", "mutation", "cant_load",
                     "timeout", "incompetent", "survived", "killed"} : ~InList(n, views)

\* C8's case: the second baseline module fails after the first one passed.
C8_Witness ==
    /\ fault = [exc |-> "TestsFailAtOriginal", phase |-> "load_and_check_tests"]
    /\ tests_loaded = 1
    /\ pc = "exited"

\* Two mutations conflict when they target the same node or one's node is an
\* ancestor of the other's.
Conflict(a, b) ==
    \/ mutation[a].node = mutation[b].node
    \/ mutation[a].node \in ancestors(mutation[b].node)
    \/ mutation[b].node \in ancestors(mutation[a].node)

\* How often mutation i occurs in the groups yielded so far.
Occurrences(i) ==
    Cardinality({gk \in {<<g, k>> : g \in 1..Len(groups), k \in 1..Len(mutation)} :
                    gk[2] <= Len(groups[gk[1]]) /\ groups[gk[1]][gk[2]] = i})

\* C5: every group a strategy yields (First-to-Last, Each-Choice,
\* Between-Operators, Random; any order) is pairwise conflict-free: no two of
\* its mutations target the same node, and no mutation's node is an ancestor or
\* descendant of another's.
C5_GroupsConflictFree ==
    \A g \in 1..Len(groups) :
        \A i, j \in 1..Len(groups[g]) :
            i # j => ~Conflict(groups[g][i], groups[g][j])

\* C5's case: the input holds the root's mutation and a grandchild's, and a
\* group of two mutations has been yielded all the same.
C5_Witness ==
    /\ hom_pc = "done"
    /\ \E a, b \in 1..Len(mutation) : mutation[a].node = 1 /\ mutation[b].node = 4
    /\ \E g \in 1..Len(groups) : Len(groups[g]) = 2

\* C6: for First-to-Last, Each-Choice and Random the groups partition the
\* input: no mutation is yielded twice, a mutation is in a yielded group or
\* still in the strategy's own list, every one is in exactly one group when the
\* generator is exhausted, and the caller's list object is never modified.
C6_GroupsPartitionInput ==
    strategy # "BETWEEN_OPERATORS" =>
        /\ lists[1] = [i \in 1..Len(mutation) |-> i]
        /\ \A g \in 1..Len(groups) : \A k \in 1..Len(groups[g]) :
               groups[g][k] \in 1..Len(mutation)
        /\ \A i \in 1..Len(mutation) : Occurrences(i) <= 1
        /\ hom_pc = "running" =>
               \A i \in 1..Len(mutation) :
                   (Occurrences(i) = 0) <=> InList(i, lists[mutations])
        /\ hom_pc = "done" => \A i \in 1..Len(mutation) : Occurrences(i) = 1

\* C6's case: Random has shuffled three mutations, yielded them in two groups
\* and is exhausted.
C6_Witness ==
    /\ strategy = "RANDOM"
    /\ hom_pc = "done"
    /\ Len(mutation) = 3
    /\ Len(groups) = 2
    /\ groups[1][1] = 3
    /\ lists[1] = <<1, 2, 3>>

BetweenOperators == strategy = "BETWEEN_OPERATORS"

\* C7: Between-Operators generation terminates; when it has, every input
\* mutation has usage counter >= 1; every yielded group holds a mutation that
\* no earlier group held, so at most len(mutations) groups are yielded.
C7_BetweenOperatorsTerminates ==
    /\ BetweenOperators => <>(hom_pc = "done")
    /\ [](BetweenOperators /\ hom_pc = "done" =>
             /\ DOMAIN usage = 1..Len(mutation)
             /\ \A i \in 1..Len(mutation) : usage[i] >= 1 /\ usage[i] = Occurrences(i))
    /\ [](BetweenOperators =>
             /\ Len(groups) <= Len(mutation)
             /\ \A g \in 1..Len(groups) :
                    \E k \in 1..Len(groups[g]) :
                        \A h \in 1..(g - 1) : ~InList(groups[g][k], groups[h]))

\* C7's case: Between-Operators is exhausted after using one mutation in two groups.
C7_Witness ==
    /\ BetweenOperators
    /\ hom_pc = "done"
    /\ Len(groups) = 2
    /\ \E i \in 1..Len(mutation) : usage[i] = 2

Ended == pc \in {"returned", "exited", "crashed"}

\* C9 as stated: a ModulesLoaderException in any phase stops the run at once
\* with exit status -2 (no further mutant processed, no notify_end), and a run
\* with neither fatal condition finishes without a nonzero exit status, that is
\* run() returns without calling sys.exit and without an uncaught exception.
C9_LoadFailureExitStatus ==
    /\ fault.exc = "ModulesLoaderException" =>
          /\ pc = "exited"
          /\ exit_status = -2
          /\ views[Len(views)] = "cant_load"
          /\ ~InList("end", views)
          /\ \A i \in 1..Len(hist) : hist[i].fate # "in_progress"
    /\ fault.exc = "TestsFailAtOriginal" => exit_status = -1
    /\ (Ended /\ fault.exc = "none") =>
          /\ pc = "returned"
          /\ exit_status = 0
          /\ raised = "none"

\* C10 as stated: a KeyboardInterrupt delivered while the controller iterates
\* targets and mutants (generation, materialization, suite building, runner
\* wait) ends the run: no further mutant is yielded or counted, the counters are
\* those the interrupt found and notify_end reports them, and nothing is raised.
C10_InterruptStopsRun ==
    (interrupt.received /\ interrupt.phase # "load_and_check_tests") =>
        /\ pc = "returned"
        /\ raised = "none"
        /\ Len(hist) = interrupt.yielded
        /\ score = interrupt.score
        /\ reported = <<interrupt.score>>

\* C11 as stated: when an assert of the higher-order generator fails (an
\* operator finds no target for its mutation, or yields more than one), only
\* that mutant's processing is aborted: the controller does not crash.
C11_AssertionAbortsOnlyMutant ==
    fault.exc = "AssertionError" => (raised = "none" /\ pc # "crashed")

\* The yielded mutants whose materialization failed, and the runners made for
\* mutant i's suite.
MaterializeFailed == {i \in 1..Len(hist) : hist[i].fate = "materialize_failed"}

RunnersOf(i) == {r \in 1..Len(runners) : runners[r].suite = i}

\* C12: a mutant whose materialization fails gets one notify_incompetent with
\* tests_run = 0 and one incompetent increment, no suite is built and no runner
\* is started for it, and mutate_module goes on to the next mutant.
C12_MaterializationFailure ==
    /\ [](\A i \in MaterializeFailed :
              /\ hist[i].notes = <<"incompetent">>
              /\ tests_run[i] = <<{0}>>
              /\ suite.mutant # i
              /\ RunnersOf(i) = {})
    /\ [][(pc = "create_mutant_module" /\ pc' # "create_test_suite") =>
              /\ pc' = "mutant_generator"
              /\ hist'[Len(hist)].fate = "materialize_failed"
              /\ IncrementedOnly(score, score', "incompetent_mutants")
              /\ runners' = runners
              /\ suite' = suite]_vars

\* C12's case: a materialization failed and a later mutant was tested.
C12_Witness ==
    /\ Len(hist) = 2
    /\ hist[1].fate = "materialize_failed"
    /\ hist[2].fate = "tested"

RECURSIVE SumDurations(_)
SumDurations(n) == IF n = 0 THEN 0 ELSE SumDurations(n - 1) + durations[n]

Max(a, b) == IF a >= b THEN a ELSE b

\* The runners get_result was called on.
Waited == {r \in 1..Len(runners) : InList("get_result", runners[r].calls)}

\* C14: the deadline every mutant's runner is given is
\* timeout_factor * max(total baseline duration, 1): never less than
\* timeout_factor, the same for every mutant of the run, and 5 when the factor
\* is 5 and the baseline took 1 second.
C14_Deadline ==
    \A r \in Waited :
        /\ runners[r].live_time = timeout_factor * Max(SumDurations(tests_loaded), 1)
        /\ runners[r].live_time >= timeout_factor
        /\ \A q \in Waited : runners[q].live_time = runners[r].live_time
        /\ (timeout_factor = 5 /\ SumDurations(tests_loaded) = 1) => runners[r].live_time = 5

\* C14's case: two mutants were given a deadline after a baseline of less than
\* a second, where the floor applies.
C14_Witness ==
    /\ Cardinality(Waited) >= 2
    /\ tests_loaded > 0
    /\ SumDurations(tests_loaded) = 0
    /\ timeout_factor = 5

\* The mutants run_tests_with_mutant has classified, and the runners that were
\* started and not terminated.
Tested == {i \in 1..Len(hist) : hist[i].fate = "tested"}

Active ==
    {r \in 1..Len(runners) :
        InList("start", runners[r].calls) /\ ~InList("terminate", runners[r].calls)}

\* C15: every tested mutant has one runner of its own, on which start,
\* get_result(live_time) and terminate were called once each in that order,
\* whether get_result returned a result or None (a timeout, notified and
\* counted once); the runner is terminated before the generator is resumed,
\* so only the mutant in progress can have an active runner.
C15_RunnerLifecycle ==
    /\ \A i \in Tested :
          /\ \E r \in RunnersOf(i) :
                /\ RunnersOf(i) = {r}
                /\ runners[r].calls = <<"start", "get_result", "terminate">>
                /\ runners[r].live_time = live_time(timeout_factor, total_duration)
          /\ ~hist[i].result.returned =>
                /\ hist[i].notes = <<"timeout">>
                /\ hist[i].calls = <<"update_timeout_mutant">>
    /\ \A r \in Active : runners[r].suite > 0 => runners[r].suite = Len(hist)
    /\ pc = "mutant_generator" => \A r \in Active : runners[r].suite = 0

\* C15's case: a mutant that timed out and a mutant that returned a result
\* were tested one after the other.
C15_Witness ==
    /\ Len(hist) = 2
    /\ Tested = {1, 2}
    /\ ~hist[1].result.returned
    /\ hist[2].result.returned
    /\ score.timeout_mutants = 1

\* C16: the reset that precedes the loading of a mutant's test modules leaves
\* exactly the keys of sys.modules that are in the snapshot __init__ stored:
\* every later entry is deleted, those of earlier mutants included, and no
\* entry of the snapshot is.
C16_ModuleCacheReset ==
    /\ [](pc = "test_loader_load" => sys_modules \subseteq init_modules)
    /\ [][(pc = "create_test_suite" /\ pc' = "test_loader_load") =>
              /\ sys_modules' \subseteq init_modules
              /\ (sys_modules \cap init_modules) \subseteq sys_modules'
              /\ init_modules' = init_modules]_vars

\* C16's case: the cache was reset for a second mutant after the first one's
\* test modules had been loaded.
C16_Witness ==
    /\ pc = "test_loader_load"
    /\ Len(hist) = 2
    /\ Tested = {1}
    /\ tests_loaded > 0
    /\ sys_modules = init_modules

\* C17: in coverage mode a test case of the mutant's suite is marked skipped
\* exactly when the mutated nodes' markers are disjoint from the markers the
\* test covered; the suite keeps all its test cases, and a mutant whose tests
\* are all skipped is still classified once.
C17_NotCoveredSkipped ==
    (coverage_result.created /\ suite.mutant > 0 /\ pc # "test_loader_load") =>
        /\ iter_tests(suite.tests) = 1..tests_loaded
        /\ \A t \in 1..tests_loaded :
              (t \in suite.skipped) <=> (markers[suite.mutant] \cap covered[t] = {})
        /\ hist[suite.mutant].fate = "tested" =>
              /\ Len(hist[suite.mutant].notes) = 1
              /\ Len(hist[suite.mutant].calls) = 1

\* C17's case: of two test cases one covers a mutated node and the other does
\* not; the mutant was classified.
C17_Witness ==
    /\ coverage_result.created
    /\ tests_loaded = 2
    /\ suite.mutant > 0
    /\ suite.skipped = {2}
    /\ Len(hist) >= suite.mutant
    /\ hist[suite.mutant].fate = "tested"

\* The sizes of the groups yielded so far.
Sizes == [g \in 1..Len(groups) |-> Len(groups[g])]

\* Each-Choice with order 2 is exhausted on three mutations of one operator.
ThreeMutationsOfOneOperator ==
    /\ strategy = "EACH_CHOICE"
    /\ order = 2
    /\ Len(mutation) = 3
    /\ \A i \in 1..3 : mutation[i].operator = mutation[1].operator
    /\ hom_pc = "done"

\* C18 as stated: three mutations of a single operator, order 2, Each-Choice:
\* exactly two groups are yielded, of sizes 2 then 1.
C18_TwoGroupsOfThree ==
    ThreeMutationsOfOneOperator => Sizes = <<2, 1>>

\* C18, amended: the sizes are 2 then 1 exactly when the first of the three
\* mutations does not conflict with both of the others; when it conflicts with
\* both, the first group holds it alone.
C18_TwoGroupsUnlessFirstConflicts ==
    ThreeMutationsOfOneOperator =>
        /\ (Sizes = <<2, 1>>) <=> (~Conflict(1, 2) \/ ~Conflict(1, 3))
        /\ (Conflict(1, 2) /\ Conflict(1, 3)) =>
              Sizes = (IF Conflict(2, 3) THEN <<1, 1, 1>> ELSE <<1, 2>>)

\* C18's case: of three mutations of one operator the first two are at
\* unrelated places; they were grouped, and the third was yielded alone.
C18_Witness ==
    /\ ThreeMutationsOfOneOperator
    /\ ~Conflict(1, 2)
    /\ ~Conflict(1, 3)
    /\ groups = <<<<1, 2>>, <<3>>>>

\* The groups EachChoiceHOMStrategy.generate yields on a list.
RECURSIVE EachChoice_generate(_)
EachChoice_generate(list) ==
    IF list = <<>> THEN <<>>
    ELSE LET r == EachChoice_fill(<<>>, list, list)
         IN  <<r.group>> \o EachChoice_generate(r.mutations)

\* C19: Random calls its shuffler once per pass, on a copy of the input, and
\* the groups it yields are, in order, those Each-Choice yields on the list the
\* shuffler left.
C19_RandomIsEachChoiceOnShuffled ==
    (strategy = "RANDOM" /\ hom_pc \in {"running", "done"}) =>
        /\ shuffler_calls = 1
        /\ lists[1] = [i \in 1..Len(mutation) |-> i]
        /\ Len(groups) <= Len(EachChoice_generate(shuffled))
        /\ groups = SubSeq(EachChoice_generate(shuffled), 1, Len(groups))
        /\ hom_pc = "done" => groups = EachChoice_generate(shuffled)

\* C19's case: the shuffler reversed three mutations and Random, exhausted,
\* has yielded more than one group.
C19_Witness ==
    /\ strategy = "RANDOM"
    /\ hom_pc = "done"
    /\ shuffled = <<3, 2, 1>>
    /\ Len(groups) >= 2
    /\ Len(groups[1]) = 2

\* The mutations in none of the first g groups.
Unassigned(g) ==
    {i \in 1..Len(mutation) :
        \A h \in 1..g : \A k \in 1..Len(groups[h]) : groups[h][k] # i}

\* C20: First-to-Last, Each-Choice and Random yield groups of 1 to order
\* members, and a group of fewer than order members only when every mutation
\* that no group holds yet conflicts with one of its members.
C20_GroupsMaximal ==
    strategy # "BETWEEN_OPERATORS" =>
        \A g \in 1..Len(groups) :
            /\ Len(groups[g]) >= 1
            /\ Len(groups[g]) <= order
            /\ Len(groups[g]) < order =>
                  \A i \in Unassigned(g) :
                      \E k \in 1..Len(groups[g]) : Conflict(groups[g][k], i)

\* C20's case: with order 2 a group of one mutation was yielded first, and a
\* group of two after it.
C20_Witness ==
    /\ strategy = "FIRST_TO_LAST"
    /\ order = 2
    /\ Len(groups) = 2
    /\ Len(groups[1]) = 1
    /\ Len(groups[2]) = 2

\* C21: no group Between-Operators yields holds two mutations of the same
\* operator, whatever the input and the order; when all the input's mutations
\* are of one operator every group has one member.
C21_BetweenOperatorsDistinct ==
    BetweenOperators =>
        /\ \A g \in 1..Len(groups) :
               \A i, j \in 1..Len(groups[g]) :
                   i # j => mutation[groups[g][i]].operator # mutation[groups[g][j]].operator
        /\ (\A a, b \in 1..Len(mutation) : mutation[a].operator = mutation[b].operator) =>
               \A g \in 1..Len(groups) : Len(groups[g]) = 1

\* C21's case: two of three mutations are of the same operator, at unrelated
\* places, and Between-Operators, exhausted, has yielded a group of two.
C21_Witness ==
    /\ BetweenOperators
    /\ hom_pc = "done"
    /\ order = 2
    /\ Len(mutation) = 3
    /\ mutation[1].operator = mutation[2].operator
    /\ ~Conflict(1, 2)
    /\ \E g \in 1..Len(groups) : Len(groups[g]) = 2

\* C22 as stated: whenever run() reaches notify_end, that is whenever
\* run_mutation_process has returned, by its end or by an interrupt it caught,
\* self.score was assigned before and reading it raises nothing.
C22_ScoreCreatedBeforeRead ==
    (Ended /\ fault.exc = "none") =>
        /\ score_created
        /\ raised # "AttributeError"

====
